---- MODULE Spec2Model ----
(***************************************************************************)
(* A model of the minicons build engine (src/minicons): the node / builder *)
(* graph, Execution.prepare_build (graph traversal, topological sort,      *)
(* staleness analysis), and Execution.build_targets (the sequential and    *)
(* the thread-pool scheduler), together with the filesystem and the        *)
(* metadata store the engine reads and writes.                             *)
(***************************************************************************)
EXTENDS Integers, Sequences, FiniteSets, TLC

(***************************************************************************)
(* Bounds of the model.                                                    *)
(***************************************************************************)
\* observed metadata of an existing path is a value in 1..MaxMeta
MaxMeta == 2
\* number of build_targets calls in one behaviour
MaxRuns == 2
\* number of changes made to the filesystem from outside the engine
MaxMutations == 1
\* number of build() invocations that fail in one behaviour
MaxFailures == 1
\* largest worker count of the thread pool (parallel=N)
MaxWorkers == 2
\* Node objects a construct file creates, and construction calls it makes
MaxInstances == 3
MaxOps == 4

(***************************************************************************)
(* Values.                                                                 *)
(***************************************************************************)
\* Node.builder is None (entry.py:36)
None == "None"
\* get_metadata() returns None when the path does not exist (entry.py:148-149,
\* 187-188); a path that exists yields a value of 1..MaxMeta.
NoFile == 0
Metas == 1..MaxMeta

Range(s) == {s[i] : i \in 1..Len(s)}

VARIABLES
    \* ---- the dependency graph (built by the construct file) ----
    node_kind,        \* node -> "File" | "Dir" | "FileSet"   (entry.py:144,160,206)
    node_builder,     \* Node.builder: node -> builder | None (entry.py:36)
    node_depends,     \* Node.depends: node -> set of nodes   (entry.py:40)
    builder_depends,  \* Builder.depends: builder -> set of nodes (builder.py:60)
    builder_builds,   \* Builder.builds: builder -> list of nodes (builder.py:63)
    targets,          \* the targets given to prepare_build / build_targets
    node_inside,      \* entry -> the Dir node its path lies directly in, or None
    \* ---- the objects a construct file creates (entry.py, builder.py) ----
    instances,        \* the Node objects in creation order: kind, path, builder, depends
    entries,          \* Execution.entries: path -> object (execution.py:64)
    builds_of,        \* Builder.builds as a list of objects (builder.py:63)
    depends_of,       \* Builder.depends as a list of objects (builder.py:60)
    last,             \* the last construction call: what it was given and what it did
    nops,             \* the number of construction calls made
    \* ---- the world the engine acts on ----
    fs,               \* entry -> NoFile | observed metadata of the path
    store,            \* file_metadata table: entry -> stored signature (partial)
    \* ---- one build_targets call ----
    pc,               \* "idle" | "seq" | "par" | "done" | "failed"
    error,            \* the exception build_targets raised ("" when none)
    dry_run,          \* build_targets(dry_run=...)
    parallel,         \* worker count after execution.py:275-278 (1 = sequential)
    pb,               \* the PreparedBuild in use
    idx,              \* position of the sequential loop in ordered_nodes
    calling,          \* builder inside _call_builder on the calling thread, or None
    built_nodes,      \* execution.py:295
    metadata_cache,   \* execution.py:296 (partial function entry -> metadata)
    to_execute,       \* execution.py:317
    ready_to_execute, \* execution.py:322
    futures,          \* futures submitted and not yet returned by wait(): a bag,
                      \* <<builder, state>> -> number of such futures
    done,             \* the `done` set returned by wait() still to be iterated (a bag)
    \* ---- history (not read by the engine) ----
    calls,            \* builder -> number of _call_builder entries in this call
    committed,        \* entries whose signature _set_metadata wrote in this call
    failed_builders,  \* builders whose _call_builder raised in this call
    fresh,            \* entry -> the signature of its dependencies as they were on
                      \* disk when _update_builder_metadata last stored its signature
    verify_failed,    \* builders whose outputs failed the check of execution.py:417-419
    fs0, store0,      \* fs and store when this build_targets call began
    first_build,      \* this call began with an empty store and no output on disk
    prev_ok,          \* the preceding call was a successful non-dry build
    last_ok,          \* the last finished call was a successful non-dry build
    dirty,            \* entries changed from outside since the last finished call
    run_dirty,        \* dirty at the beginning of this call
    mut0,             \* mutations at the beginning of this call
    runs, mutations, failures

constructVars == <<instances, entries, builds_of, depends_of, last, nops>>
graphVars == <<node_kind, node_builder, node_depends, builder_depends, builder_builds, targets,
               node_inside, constructVars>>
worldVars == <<fs, store>>
callVars  == <<pc, error, dry_run, parallel, pb, idx, calling, built_nodes, metadata_cache,
               to_execute, ready_to_execute, futures, done>>
histVars  == <<calls, committed, failed_builders,
               fresh, verify_failed, fs0, store0, first_build, prev_ok,
               last_ok, dirty, run_dirty, mut0, runs, mutations, failures>>
callVars_but_futures == <<pc, error, dry_run, parallel, pb, idx, calling, built_nodes,
                          metadata_cache, to_execute, ready_to_execute, done>>
vars == <<graphVars, worldVars, callVars, histVars>>

Nodes    == DOMAIN node_kind
Builders == DOMAIN builder_builds

\* isinstance(node, Entry): File and Dir are entries, FileSet is not (entry.py:43)
IsEntry(n) == node_kind[n] \in {"File", "Dir"}
Entries == {n \in Nodes : IsEntry(n)}

(***************************************************************************)
(* Iteration order.  The engine iterates over Python sets (the             *)
(* `dependencies` set of the traversal, reverse_edges[node] of the sort),  *)
(* whose order is unspecified.  A rank, a sequence holding every node      *)
(* once, fixes the order of one prepare_build call; the call is taken for  *)
(* every rank.                                                             *)
(***************************************************************************)
RECURSIVE Perms(_)
Perms(S) == IF S = {} THEN {<<>>}
            ELSE UNION {{<<x>> \o p : p \in Perms(S \ {x})} : x \in S}

SetToSeq(S, rank) == SelectSeq(rank, LAMBDA x : x \in S)

Last(s) == s[Len(s)]
Front(s) == SubSeq(s, 1, Len(s) - 1)

(***************************************************************************)
(* _traverse_node_graph (execution.py:452-488)                             *)
(***************************************************************************)
\* A traversal that leaves out the dependencies of the sibling nodes.
dependencies_without_siblings(visiting) ==
    node_depends[visiting] \cup
    (IF node_builder[visiting] # None
     THEN builder_depends[node_builder[visiting]] ELSE {})

\* execution.py:470-482: the explicit dependencies of the node, its builder's
\* dependencies and the explicit dependencies of every output of its builder
dependencies(visiting) ==
    node_depends[visiting] \cup
    (IF node_builder[visiting] # None
     THEN builder_depends[node_builder[visiting]] \cup
          UNION {node_depends[sibling] : sibling \in Range(builder_builds[node_builder[visiting]])}
     ELSE {})

\* the while loop of execution.py:464-487; to_visit is a stack (pop from the end)
RECURSIVE traverse_loop(_, _, _, _, _)
traverse_loop(to_visit, reachable_entries, edges, seen, rank) ==
    IF to_visit = <<>> THEN [nodes |-> reachable_entries, edges |-> edges]
    ELSE LET visiting == Last(to_visit)
             seen2    == seen \cup {visiting}
             deps     == SetToSeq(dependencies(visiting), rank)
             unseen   == SelectSeq(deps, LAMBDA d : d \notin seen2)
         IN traverse_loop(Front(to_visit) \o unseen,
                          Append(reachable_entries, visiting),
                          [edges EXCEPT ![visiting] = @ \o deps],
                          seen2, rank)

\* edges is a defaultdict(list): a node never visited maps to the empty list
_traverse_node_graph(tgts, rank) ==
    traverse_loop(tgts, <<>>, [n \in Nodes |-> <<>>], {}, rank)

(***************************************************************************)
(* _sort_dag (execution.py:491-530)                                        *)
(***************************************************************************)
\* the while loop of execution.py:515-522
RECURSIVE sort_loop(_, _, _, _, _)
sort_loop(leaf_nodes, sorted_nodes, edges, reverse_edges, rank) ==
    IF leaf_nodes = <<>> THEN [sorted |-> sorted_nodes, edges |-> edges]
    ELSE LET node   == Last(leaf_nodes)
             ms     == SetToSeq(reverse_edges[node], rank)
             edges2 == [m \in Nodes |-> IF m \in reverse_edges[node]
                                        THEN edges[m] \ {node} ELSE edges[m]]
             freed  == SelectSeq(ms, LAMBDA m : edges2[m] = {})
         IN sort_loop(Front(leaf_nodes) \o freed,
                      Append(sorted_nodes, node),
                      edges2,
                      [reverse_edges EXCEPT ![node] = {}],
                      rank)

\* execution.py:524: edges left over after the loop are on (or behind) a cycle
residual_edges(edges) == {<<n, dep>> \in Nodes \X Nodes : dep \in edges[n]}

\* Returns [cycle, sorted, residual]; cycle = TRUE stands for the DependencyError
\* of execution.py:528, whose message lists the residual edges.
_sort_dag(nodes, edges_orig, rank) ==
    LET edges == [n \in Nodes |-> Range(edges_orig[n])]
        reverse_edges == [d \in Nodes |-> {e \in Nodes : d \in edges[e]}]
        leaf_nodes == SelectSeq(nodes, LAMBDA n : edges[n] = {})
        r == sort_loop(leaf_nodes, <<>>, edges, reverse_edges, rank)
    IN [cycle    |-> residual_edges(r.edges) # {},
        sorted   |-> r.sorted,
        residual |-> residual_edges(r.edges)]

(***************************************************************************)
(* Execution.prepare_build (execution.py:146-252)                          *)
(***************************************************************************)
\* execution.py:175-180: walk towards the leaves collecting every Entry
RECURSIVE all_dependencies_loop(_, _, _)
all_dependencies_loop(to_visit, acc, edges) ==
    IF to_visit = <<>> THEN acc
    ELSE LET v == Last(to_visit)
         IN all_dependencies_loop(Front(to_visit) \o edges[v],
                                  IF IsEntry(v) THEN acc \cup {v} ELSE acc,
                                  edges)

\* A projection that keeps the entries among the recorded dependencies only.
direct_dependencies(all_nodes, edges) ==
    [node \in Range(all_nodes) |-> {d \in Range(edges[node]) : IsEntry(d)}]

\* execution.py:172-180; a dict keyed by the reachable nodes
all_dependencies(all_nodes, edges) ==
    [node \in Range(all_nodes) |-> all_dependencies_loop(edges[node], {}, edges)]

\* Execution._metadata_signature (execution.py:444-449)
_metadata_signature(metadata, nodes) == [e \in nodes |-> metadata[e]]

\* Execution._get_metadata (execution.py:94-104): None when no row is stored
HasStored(path) == path \in DOMAIN store
\* dict.get(path) on a stored signature: None when the key is absent
SigGet(sig, path) == IF path \in DOMAIN sig THEN sig[path] ELSE NoFile

\* A staleness test that looks at the path only, not at the stored signature.
IsOutdatedIfAbsent(node, metadata, deps) ==
    /\ IsEntry(node)
    /\ node_builder[node] # None
    /\ fs[node] = NoFile

\* execution.py:194-207
IsOutdated(node, metadata, deps) ==
    /\ IsEntry(node)
    /\ node_builder[node] # None
    /\ \/ fs[node] = NoFile
       \/ ~HasStored(node)
       \/ store[node] # _metadata_signature(metadata, deps[node])

\* execution.py:208-213
changed_of(node, metadata, deps) ==
    IF fs[node] # NoFile /\ HasStored(node)
    THEN {dep \in deps[node] : SigGet(store[node], dep) # metadata[dep]}
    ELSE {}

\* execution.py:220-223: one pass over ordered_nodes, in order
RECURSIVE propagate_down(_, _, _, _)
propagate_down(i, to_build, ordered_nodes, edges) ==
    IF i > Len(ordered_nodes) THEN to_build
    ELSE LET node == ordered_nodes[i]
         IN propagate_down(i + 1,
                           IF \E d \in Range(edges[node]) : d \in to_build
                           THEN to_build \cup {node} ELSE to_build,
                           ordered_nodes, edges)

\* A preparation without the upward pass.
no_propagate_up(i, to_build, ordered_nodes, edges) == to_build

\* execution.py:236-242: one pass over reversed(ordered_nodes)
RECURSIVE propagate_up(_, _, _, _)
propagate_up(i, to_build, ordered_nodes, edges) ==
    IF i < 1 THEN to_build
    ELSE LET node == ordered_nodes[i]
         IN propagate_up(i - 1,
                         IF node \in to_build
                         THEN to_build \cup {d \in Range(edges[node]) :
                                               ~IsEntry(d) /\ node_builder[d] # None}
                         ELSE to_build,
                         ordered_nodes, edges)

\* A preparation that raises without listing the edges left over by the sort.
FailedPrepareUnlisted(status, residual) ==
    [status |-> status, residual |-> {}, ordered_nodes |-> <<>>,
     all_nodes |-> <<>>, edges |-> [n \in Nodes |-> <<>>], out_of_date |-> {},
     to_build |-> {}, changed |-> {}, entry_dependencies |-> <<>>, targets |-> targets]

\* The PreparedBuild of a call that raised: status names the exception.
FailedPrepare(status, residual) ==
    [status |-> status, residual |-> residual, ordered_nodes |-> <<>>,
     all_nodes |-> <<>>, edges |-> [n \in Nodes |-> <<>>], out_of_date |-> {},
     to_build |-> {}, changed |-> {}, entry_dependencies |-> <<>>, targets |-> targets]

\* A gathering of the metadata that does not look for absent inputs.
no_missing_inputs(entry_nodes) == {}

\* execution.py:184-188: the entries without a builder whose path does not exist
missing_inputs(entry_nodes) ==
    {e \in entry_nodes : node_builder[e] = None /\ fs[e] = NoFile}

\* prepare_build after the sort succeeded (execution.py:163-252)
prepare_sorted(t, ordered_nodes) ==
    LET all_nodes == t.nodes
        edges == t.edges
        entry_nodes == {n \in Range(all_nodes) : IsEntry(n)}
        deps == all_dependencies(all_nodes, edges)
        metadata == [e \in entry_nodes |-> fs[e]]
        outdated == {n \in Range(all_nodes) : IsOutdated(n, metadata, deps)}
        changed == UNION {changed_of(n, metadata, deps) : n \in outdated}
        to_build == propagate_up(Len(ordered_nodes),
                                 propagate_down(1, outdated, ordered_nodes, edges),
                                 ordered_nodes, edges)
    IN IF missing_inputs(entry_nodes) # {}
       THEN FailedPrepare("MissingInput", {})          \* execution.py:185-188
       ELSE [status |-> "ok", residual |-> {}, ordered_nodes |-> ordered_nodes,
             all_nodes |-> all_nodes, edges |-> edges, out_of_date |-> outdated,
             to_build |-> to_build, changed |-> changed,
             entry_dependencies |-> deps, targets |-> targets]

prepare_build(rank) ==
    LET t == _traverse_node_graph(targets, rank)
        s == _sort_dag(t.nodes, t.edges, rank)
    IN IF s.cycle THEN FailedPrepare("Cycle", s.residual)   \* execution.py:524-528
       ELSE prepare_sorted(t, s.sorted)

(***************************************************************************)
(* Execution._call_builder (execution.py:393-421), in two steps: the       *)
(* removal and preparation of the outputs up to the call of build(), and   *)
(* build() with the verification of the outputs.                           *)
(***************************************************************************)
EntryOutputs(b) == {e \in Range(builder_builds[b]) : IsEntry(e)}

\* A _call_builder that leaves the outputs of an earlier build in place.
remove_nothing(b, files) == files

\* The removal without the dry_run test of execution.py:400.
remove_outputs_always(b, files) ==
    [e \in DOMAIN files |-> IF e \in EntryOutputs(b) THEN NoFile ELSE files[e]]

\* execution.py:400-407: Entry.remove() on every entry output (entry.py:156,201)
remove_outputs(b, files) ==
    IF dry_run THEN files
    ELSE [e \in DOMAIN files |-> IF e \in EntryOutputs(b) THEN NoFile ELSE files[e]]

\* execution.py:405-407: Entry.prepare() on every entry output (entry.py:125-131)
\* makes its parent directory, with the missing directories above it; a directory
\* made this way is empty, and an empty directory shows the metadata 1
prepare_outputs(b, files) ==
    IF dry_run THEN files
    ELSE [e \in DOMAIN files |->
            IF files[e] = NoFile /\ \E o \in EntryOutputs(b) : node_inside[o] = e
            THEN 1 ELSE files[e]]

\* What one build() invocation does (builder.py:68-74 leaves it to the builder):
\*   ok      - writes every entry output and returns;
\*   raise   - raises, having written any part of its outputs;
\*   missing - returns without having written every entry output.
\* v is the metadata observed on what it wrote.
Outcomes(b) ==
    IF dry_run THEN {[kind |-> "ok", written |-> {}, v |-> 1]}
    ELSE {[kind |-> "ok", written |-> EntryOutputs(b), v |-> v] : v \in Metas}
         \cup (IF failures < MaxFailures
               THEN {[kind |-> "raise", written |-> w, v |-> v] :
                        w \in SUBSET EntryOutputs(b), v \in Metas}
                    \cup {[kind |-> "missing", written |-> w, v |-> v] :
                        w \in (SUBSET EntryOutputs(b)) \ {EntryOutputs(b)}, v \in Metas}
               ELSE {})

\* a path written anew never shows the metadata (the mtime) it had when the call began
Written(e, v) == IF v # fs0[e] THEN v ELSE (v % MaxMeta) + 1

build_effect(o, files) ==
    [e \in DOMAIN files |-> IF e \in o.written THEN Written(e, o.v) ELSE files[e]]

\* execution.py:414 raised, or execution.py:417-419 raised
RaisedBy(o) == IF o.kind = "raise" THEN "BuilderFailure"
               ELSE IF o.kind = "missing" THEN "MissingOutput" ELSE ""

(***************************************************************************)
(* Execution._update_builder_metadata (execution.py:423-442)               *)
(***************************************************************************)
\* ok = FALSE stands for the KeyError of entry_dependencies[built_entry]
RECURSIVE update_loop(_, _, _, _, _, _)
update_loop(builds, st, cache, com, entry_dependencies, files) ==
    IF builds = <<>> THEN [store |-> st, cache |-> cache, committed |-> com, ok |-> TRUE]
    ELSE LET built_entry == Head(builds)
         IN IF ~IsEntry(built_entry)
            THEN update_loop(Tail(builds), st, cache, com, entry_dependencies, files)
            ELSE IF built_entry \notin DOMAIN entry_dependencies
            THEN [store |-> st, cache |-> cache, committed |-> com, ok |-> FALSE]
            ELSE LET deps == entry_dependencies[built_entry]
                     cache2 == [d \in (DOMAIN cache) \cup deps |->
                                  IF d \in DOMAIN cache THEN cache[d] ELSE files[d]]
                     st2 == [p \in (DOMAIN st) \cup {built_entry} |->
                                  IF p = built_entry
                                  THEN _metadata_signature(cache2, deps) ELSE st[p]]
                 IN update_loop(Tail(builds), st2, cache2, com \cup {built_entry},
                                entry_dependencies, files)

_update_builder_metadata(b, files) ==
    update_loop(builder_builds[b], store, metadata_cache, committed,
                pb.entry_dependencies, files)

\* fresh, once the signatures of the entry outputs of b have been stored: each
\* is set to the signature of its dependencies as they are in files
FreshAfter(b, files) ==
    [e \in (DOMAIN fresh) \cup EntryOutputs(b) |->
        IF e \in EntryOutputs(b)
        THEN _metadata_signature(files, pb.entry_dependencies[e]) ELSE fresh[e]]

(***************************************************************************)
(* The scans of the parallel scheduler                                     *)
(***************************************************************************)
DepsBuilt(node, built, edges) == \A dep \in Range(edges[node]) : dep \in built

\* execution.py:322-328
RECURSIVE initial_scan(_, _, _, _)
initial_scan(i, built, ready, p) ==
    IF i > Len(p.ordered_nodes) THEN [built |-> built, ready |-> ready]
    ELSE LET node == p.ordered_nodes[i]
         IN IF DepsBuilt(node, built, p.edges)
            THEN IF node \notin p.to_build
                 THEN initial_scan(i + 1, built \cup {node}, ready, p)
                 ELSE initial_scan(i + 1, built, ready \cup {node}, p)
            ELSE initial_scan(i + 1, built, ready, p)

\* execution.py:375-383
RECURSIVE rescan(_, _, _, _)
rescan(i, built, ready, p) ==
    IF i > Len(p.ordered_nodes) THEN [built |-> built, ready |-> ready]
    ELSE LET node == p.ordered_nodes[i]
         IN IF DepsBuilt(node, built, p.edges) /\ node \notin built
            THEN IF node_builder[node] # None
                 THEN rescan(i + 1, built, ready \cup {node}, p)
                 ELSE rescan(i + 1, built \cup {node}, ready, p)
            ELSE rescan(i + 1, built, ready, p)

(***************************************************************************)
(* Graphs.  Each is what a construct file builds through Builder           *)
(* (register_target, depends_file) and FileSet.add: kind gives the nodes,  *)
(* builds the builders with their outputs, bdeps Builder.depends, ndeps    *)
(* Node.depends (empty where not given), targets the requested targets.    *)
(***************************************************************************)
Graphs == {
    \* test_files_builder-like: two builders that do not depend on each other
    [kind |-> ("a" :> "File" @@ "b" :> "File"),
     builds |-> ("A" :> <<"a">> @@ "B" :> <<"b">>),
     bdeps |-> ("A" :> {} @@ "B" :> {}), ndeps |-> <<>>, targets |-> <<"a", "b">>],
    \* a builder depending on another builder's output, beside an unrelated one
    [kind |-> ("a" :> "File" @@ "b" :> "File" @@ "c" :> "File"),
     builds |-> ("A" :> <<"a">> @@ "B" :> <<"b">> @@ "C" :> <<"c">>),
     bdeps |-> ("A" :> {} @@ "B" :> {} @@ "C" :> {"a"}), ndeps |-> <<>>,
     targets |-> <<"c", "b">>],
    \* a builder with two outputs (a Dir and a File), one of them an input of another
    [kind |-> ("o1" :> "Dir" @@ "o2" :> "File" @@ "n" :> "File"),
     builds |-> ("M" :> <<"o1", "o2">> @@ "N" :> <<"n">>),
     bdeps |-> ("M" :> {} @@ "N" :> {"o1"}), ndeps |-> <<>>, targets |-> <<"n", "o2">>],
    \* test_file_dependency: a source file copied to a target
    [kind |-> ("s" :> "File" @@ "t" :> "File"),
     builds |-> ("T" :> <<"t">>),
     bdeps |-> ("T" :> {"s"}), ndeps |-> <<>>, targets |-> <<"t">>],
    \* a source, an intermediate file and a final file
    [kind |-> ("s" :> "File" @@ "a" :> "File" @@ "b" :> "File"),
     builds |-> ("A" :> <<"a">> @@ "B" :> <<"b">>),
     bdeps |-> ("A" :> {"s"} @@ "B" :> {"a"}), ndeps |-> <<>>, targets |-> <<"b">>],
    \* a FileSet produced by a builder (builders/install.py:35), requested itself
    [kind |-> ("s" :> "File" @@ "F" :> "FileSet"),
     builds |-> ("X" :> <<"F">>),
     bdeps |-> ("X" :> {"s"}), ndeps |-> <<>>, targets |-> <<"F">>],
    \* a FileSet produced by a builder and read by two other builders
    [kind |-> ("F" :> "FileSet" @@ "y" :> "File" @@ "z" :> "File"),
     builds |-> ("X" :> <<"F">> @@ "Y" :> <<"y">> @@ "Z" :> <<"z">>),
     bdeps |-> ("X" :> {} @@ "Y" :> {"F"} @@ "Z" :> {"F"}), ndeps |-> <<>>,
     targets |-> <<"y", "z">>],
    \* a built FileSet added to a static FileSet (FileSet.add) that a builder reads
    [kind |-> ("d" :> "FileSet" @@ "g" :> "FileSet" @@ "n" :> "File"),
     builds |-> ("D" :> <<"d">> @@ "N" :> <<"n">>),
     bdeps |-> ("D" :> {} @@ "N" :> {"g"}), ndeps |-> ("g" :> {"d"}),
     targets |-> <<"n">>],
    \* a builder with two outputs of which one is requested
    [kind |-> ("o1" :> "File" @@ "o2" :> "File"),
     builds |-> ("M" :> <<"o1", "o2">>),
     bdeps |-> ("M" :> {}), ndeps |-> <<>>, targets |-> <<"o1">>],
    \* two builders depending on each other's output
    [kind |-> ("a" :> "File" @@ "b" :> "File"),
     builds |-> ("A" :> <<"a">> @@ "B" :> <<"b">>),
     bdeps |-> ("A" :> {"b"} @@ "B" :> {"a"}), ndeps |-> <<>>, targets |-> <<"a">>],
    \* a builder depending on its own output
    [kind |-> ("s" :> "File" @@ "a" :> "File"),
     builds |-> ("A" :> <<"a">>),
     bdeps |-> ("A" :> {"a", "s"}), ndeps |-> <<>>, targets |-> <<"a">>],
    \* a cycle behind the target, beside a source and a stale output on no cycle
    [kind |-> ("s" :> "File" @@ "a" :> "File" @@ "b" :> "File" @@ "c" :> "File"),
     builds |-> ("A" :> <<"a">> @@ "B" :> <<"b">> @@ "C" :> <<"c">>),
     bdeps |-> ("A" :> {"b", "s"} @@ "B" :> {"a"} @@ "C" :> {"s"}), ndeps |-> <<>>,
     targets |-> <<"a", "c">>]
}

\* Graphs followed on the sequential path only.
GraphsSeq == {
    \* a builder of a file and a FileSet, read by a builder of the file and a builder
    \* of both
    [kind |-> ("d" :> "File" @@ "F" :> "FileSet" @@ "n" :> "File" @@ "p" :> "File"),
     builds |-> ("M" :> <<"d", "F">> @@ "N" :> <<"n">> @@ "P" :> <<"p">>),
     bdeps |-> ("M" :> {} @@ "N" :> {"d"} @@ "P" :> {"d", "F"}), ndeps |-> <<>>,
     targets |-> <<"n", "p">>],
    \* a source read by two builders, one of which reads the other's output
    [kind |-> ("c" :> "File" @@ "b" :> "File" @@ "a" :> "File"),
     builds |-> ("A" :> <<"a">> @@ "B" :> <<"b">>),
     bdeps |-> ("A" :> {"b", "c"} @@ "B" :> {"c"}), ndeps |-> <<>>,
     targets |-> <<"a">>],
    \* a built FileSet read by the builder of another FileSet, which a file's builder reads
    [kind |-> ("F" :> "FileSet" @@ "G" :> "FileSet" @@ "z" :> "File"),
     builds |-> ("X" :> <<"F">> @@ "Y" :> <<"G">> @@ "Z" :> <<"z">>),
     bdeps |-> ("X" :> {} @@ "Y" :> {"F"} @@ "Z" :> {"G"}), ndeps |-> <<>>,
     targets |-> <<"z">>],
    \* a builder of a directory and of a file in that directory
    [kind |-> ("o" :> "Dir" @@ "f" :> "File"),
     builds |-> ("M" :> <<"o", "f">>),
     bdeps |-> ("M" :> {}), ndeps |-> <<>>, inside |-> ("f" :> "o"),
     targets |-> <<"o", "f">>],
    \* a builder of a file and of a FileSet that holds a source (FileSet.add), the
    \* case of the comment at execution.py:475-480
    [kind |-> ("s" :> "File" @@ "F" :> "FileSet" @@ "o" :> "File"),
     builds |-> ("M" :> <<"F", "o">>),
     bdeps |-> ("M" :> {}), ndeps |-> ("F" :> {"s"}), targets |-> <<"o">>],
    \* an intermediate file requested beside the file made from it
    [kind |-> ("s" :> "File" @@ "c" :> "File" @@ "a" :> "File"),
     builds |-> ("C" :> <<"c">> @@ "A" :> <<"a">>),
     bdeps |-> ("C" :> {"s"} @@ "A" :> {"c"}), ndeps |-> <<>>, targets |-> <<"c", "a">>],
    \* a file made from a FileSet that a builder fills from a source
    [kind |-> ("s" :> "File" @@ "F" :> "FileSet" @@ "y" :> "File"),
     builds |-> ("X" :> <<"F">> @@ "Y" :> <<"y">>),
     bdeps |-> ("X" :> {"s"} @@ "Y" :> {"F"}), ndeps |-> <<>>, targets |-> <<"y">>]
}

\* Graphs followed on the thread-pool path only.
GraphsPar == {
    \* a built file put in a static FileSet (FileSet.add) that another builder reads
    [kind |-> ("y" :> "File" @@ "g" :> "FileSet" @@ "n" :> "File"),
     builds |-> ("Y" :> <<"y">> @@ "N" :> <<"n">>),
     bdeps |-> ("Y" :> {} @@ "N" :> {"g"}), ndeps |-> ("g" :> {"y"}),
     targets |-> <<"n">>],
    \* test_file_dependency: a source file copied to a target
    [kind |-> ("s" :> "File" @@ "t" :> "File"),
     builds |-> ("T" :> <<"t">>),
     bdeps |-> ("T" :> {"s"}), ndeps |-> <<>>, targets |-> <<"t">>]
}

NodeDepends(g) == [n \in DOMAIN g.kind |-> IF n \in DOMAIN g.ndeps THEN g.ndeps[n] ELSE {}]
\* Builder.register_target (builder.py:84-85) sets node.builder as it appends to builds
NodeBuilder(g) == [n \in DOMAIN g.kind |->
                     IF \E b \in DOMAIN g.builds : n \in Range(g.builds[b])
                     THEN CHOOSE b \in DOMAIN g.builds : n \in Range(g.builds[b])
                     ELSE None]

\* the paths the construct file gave: inside names the entries whose path lies in
\* the directory of a Dir node (none where not given)
NodeInside(g) == [n \in DOMAIN g.kind |->
                    IF "inside" \in DOMAIN g /\ n \in DOMAIN g.inside THEN g.inside[n]
                    ELSE None]

NoPrepare == FailedPrepare("", {})

\* The states of a future: queued in the pool, running _call_builder, returned
\* the builder, or holding the exception _call_builder raised.
FutStates == {"queued", "running", "returned", "BuilderFailure", "MissingOutput"}
FutKeys == Builders \X FutStates
NoFutures == [k \in FutKeys |-> 0]
RECURSIVE BagSize(_, _)
BagSize(bag, keys) == IF keys = {} THEN 0
                      ELSE LET k == CHOOSE x \in keys : TRUE
                           IN bag[k] + BagSize(bag, keys \ {k})
InState(bag, states) == BagSize(bag, {k \in FutKeys : k[2] \in states})
Move(bag, from, to) == [k \in FutKeys |-> IF k = from /\ k = to THEN bag[k]
                                          ELSE IF k = from THEN bag[k] - 1
                                          ELSE IF k = to THEN bag[k] + 1 ELSE bag[k]]
\* A wait() to which no future ever shows as completed.
NeverCompleted(k) == FALSE

IsCompleted(k) == k[2] \in {"returned", "BuilderFailure", "MissingOutput"}

CompletedOf(bag) == [k \in FutKeys |-> IF IsCompleted(k) THEN bag[k] ELSE 0]
PendingOf(bag) == [k \in FutKeys |-> IF IsCompleted(k) THEN 0 ELSE bag[k]]

\* the objects of a new Execution (execution.py:57-64) with two builders that have
\* registered nothing yet (builder.py:54-63)
ConstructBuilders == {"B1", "B2"}
NoCall == [op |-> "", arg |-> None, builder |-> None, ret |-> 0, err |-> ""]
NoConstruction ==
    /\ instances = <<>>
    /\ entries = <<>>
    /\ builds_of = [b \in ConstructBuilders |-> <<>>]
    /\ depends_of = [b \in ConstructBuilders |-> <<>>]
    /\ last = NoCall
    /\ nops = 0

InitFrom(G) ==
    /\ \E g \in G :
         /\ node_kind = g.kind
         /\ node_builder = NodeBuilder(g)
         /\ node_depends = NodeDepends(g)
         /\ builder_depends = g.bdeps
         /\ builder_builds = g.builds
         /\ targets = g.targets
         /\ node_inside = NodeInside(g)
    \* sources are present, nothing has been built, the store is new (execution.py:70-75)
    /\ fs = [e \in Entries |-> IF node_builder[e] = None THEN 1 ELSE NoFile]
    /\ store = <<>>
    /\ NoConstruction
    /\ pc = "idle" /\ error = "" /\ dry_run = FALSE /\ parallel = 1
    /\ pb = NoPrepare
    /\ idx = 1 /\ calling = None
    /\ built_nodes = {} /\ metadata_cache = <<>>
    /\ to_execute = {} /\ ready_to_execute = {}
    /\ futures = NoFutures /\ done = NoFutures
    /\ calls = [b \in Builders |-> 0]
    /\ committed = {} /\ failed_builders = {}
    /\ fresh = <<>> /\ verify_failed = {}
    /\ fs0 = fs /\ store0 = store
    /\ first_build = FALSE /\ prev_ok = FALSE /\ last_ok = FALSE
    /\ dirty = {} /\ run_dirty = {}
    /\ runs = 0 /\ mutations = 0 /\ failures = 0 /\ mut0 = 0

Init == InitFrom(Graphs)

(***************************************************************************)
(* Execution.build_targets (execution.py:254-391)                          *)
(***************************************************************************)
\* no build_targets call is under way and no pool thread is still at work
Quiescent == pc \in {"idle", "done", "failed"} /\ futures = NoFutures /\ calling = None

\* the bookkeeping of a call that returns or raises
Finish(ok, dry) ==
    /\ last_ok' = IF dry THEN last_ok ELSE ok
    /\ dirty' = IF ok /\ ~dry THEN {} ELSE dirty

\* build_targets(prepared_build=p) up to the first builder: execution.py:275-296,
\* and for the parallel path execution.py:316-328.
build_prepared(dry, par, p) ==
    /\ Quiescent
    /\ runs < MaxRuns
    /\ runs' = runs + 1
    /\ dry_run' = dry /\ parallel' = par
    /\ LET scan == initial_scan(1, {}, {}, p)
       IN /\ pb' = p
          /\ IF p.status # "ok"
             THEN /\ pc' = "failed" /\ error' = p.status
                  /\ built_nodes' = {} /\ ready_to_execute' = {} /\ to_execute' = {}
                  /\ Finish(FALSE, dry)
             ELSE IF p.to_build = {}
             THEN /\ pc' = "done" /\ error' = ""             \* execution.py:284-286
                  /\ built_nodes' = {} /\ ready_to_execute' = {} /\ to_execute' = {}
                  /\ Finish(TRUE, dry)
             ELSE IF par = 1
             THEN /\ pc' = "seq" /\ error' = ""
                  /\ built_nodes' = {} /\ ready_to_execute' = {} /\ to_execute' = {}
                  /\ UNCHANGED <<last_ok, dirty>>
             ELSE /\ pc' = "par" /\ error' = ""
                  /\ built_nodes' = scan.built
                  /\ ready_to_execute' = scan.ready
                  /\ to_execute' = p.to_build
                  /\ UNCHANGED <<last_ok, dirty>>
    /\ idx' = 1 /\ calling' = None /\ metadata_cache' = <<>>
    /\ futures' = NoFutures /\ done' = NoFutures
    /\ calls' = [b \in Builders |-> 0]
    /\ committed' = {} /\ failed_builders' = {}
    /\ fresh' = <<>> /\ verify_failed' = {}
    /\ fs0' = fs /\ store0' = store
    /\ first_build' = (/\ store = <<>>
                       /\ \A e \in Entries : (fs[e] = NoFile) <=> (node_builder[e] # None))
    /\ prev_ok' = last_ok
    /\ run_dirty' = dirty
    /\ mut0' = mutations
    /\ UNCHANGED <<graphVars, worldVars, mutations, failures>>

\* build_targets(targets): the build is prepared first (execution.py:267-271)
build_targets(dry, par, rank) == build_prepared(dry, par, prepare_build(rank))

\* main.py:37-40 with --always-make: to_build := set(ordered_nodes)
always_make(p) == [p EXCEPT !.to_build = Range(p.ordered_nodes)]

\* ---- sequential path, execution.py:298-311 ----
SeqWants(j) ==
    LET node == pb.ordered_nodes[j]
    IN node \in pb.to_build /\ node \notin built_nodes /\ node_builder[node] # None

\* the loop runs on to the next node whose builder is to be called, and enters
\* _call_builder up to the call of build(); or it ends and build_targets returns
SeqNext ==
    /\ pc = "seq" /\ calling = None
    /\ LET js == {j \in idx..Len(pb.ordered_nodes) : SeqWants(j)}
       IN IF js = {}
          THEN /\ pc' = "done"
               /\ Finish(TRUE, dry_run)
               /\ UNCHANGED <<idx, calling, calls, fs>>
          ELSE LET j == CHOOSE k \in js : \A l \in js : k <= l
                   b == node_builder[pb.ordered_nodes[j]]
               IN /\ idx' = j
                  /\ calling' = b
                  /\ calls' = [calls EXCEPT ![b] = @ + 1]
                  /\ fs' = prepare_outputs(b, remove_outputs(b, fs))
                  /\ UNCHANGED <<pc, last_ok, dirty>>
    /\ UNCHANGED <<graphVars, store, error, dry_run, parallel, pb, built_nodes,
                   metadata_cache, to_execute, ready_to_execute, futures, done,
                   committed, failed_builders,
                   fresh, verify_failed, fs0, store0, first_build, prev_ok,
                   run_dirty, mut0, runs, mutations, failures>>

\* build() ends, the outputs are verified, and execution.py:307-311 follows
SeqFinish ==
    /\ pc = "seq" /\ calling # None
    /\ \E o \in Outcomes(calling) :
         LET files == build_effect(o, fs)
             u == _update_builder_metadata(calling, files)
         IN /\ fs' = files
            /\ calling' = None
            /\ verify_failed' = IF o.kind = "missing" THEN verify_failed \cup {calling}
                                 ELSE verify_failed
            /\ fresh' = IF o.kind = "ok" /\ ~dry_run /\ u.ok
                         THEN FreshAfter(calling, files) ELSE fresh
            /\ IF o.kind # "ok"
               THEN /\ pc' = "failed" /\ error' = RaisedBy(o)
                    /\ failures' = failures + 1
                    /\ failed_builders' = failed_builders \cup {calling}
                    /\ Finish(FALSE, dry_run)
                    /\ UNCHANGED <<built_nodes, store, metadata_cache, committed, idx>>
               ELSE /\ built_nodes' = built_nodes \cup Range(builder_builds[calling])
                    /\ UNCHANGED <<failures, failed_builders>>
                    /\ IF dry_run
                       THEN /\ idx' = idx + 1
                            /\ UNCHANGED <<pc, error, store, metadata_cache, committed,
                                           last_ok, dirty>>
                       ELSE /\ store' = u.store
                            /\ metadata_cache' = u.cache
                            /\ committed' = u.committed
                            /\ IF u.ok
                               THEN /\ idx' = idx + 1
                                    /\ UNCHANGED <<pc, error, last_ok, dirty>>
                               ELSE /\ pc' = "failed" /\ error' = "KeyError"
                                    /\ Finish(FALSE, dry_run)
                                    /\ UNCHANGED idx
    /\ UNCHANGED <<graphVars, dry_run, parallel, pb, to_execute, ready_to_execute,
                   futures, done, calls, fs0, store0, first_build, prev_ok,
                   run_dirty, mut0, runs, mutations>>

\* ---- parallel path, execution.py:312-391 ----
\* execution.py:332-358: a ready node is popped and its builder submitted
Submit ==
    /\ pc = "par" /\ done = NoFutures
    /\ ready_to_execute # {}
    /\ \E node \in ready_to_execute :
         LET b == node_builder[node]
         IN IF b = None
            THEN /\ pc' = "failed" /\ error' = "AssertionError"    \* execution.py:334
                 /\ Finish(FALSE, dry_run)
                 /\ futures' = PendingOf(futures)
                 /\ UNCHANGED <<ready_to_execute, to_execute>>
            ELSE /\ ready_to_execute' =
                        (ready_to_execute \ {node}) \ Range(builder_builds[b])
                 /\ to_execute' = to_execute \ Range(builder_builds[b])
                 /\ IF \E builds \in Range(builder_builds[b]) :
                          \E dep \in Range(pb.edges[builds]) : dep \notin built_nodes
                    THEN /\ pc' = "failed" /\ error' = "InternalInconsistency"
                         /\ Finish(FALSE, dry_run)
                         /\ futures' = PendingOf(futures)
                    ELSE /\ futures' = [futures EXCEPT ![<<b, "queued">>] = @ + 1]
                         /\ UNCHANGED <<pc, error, last_ok, dirty>>
    /\ UNCHANGED <<graphVars, worldVars, dry_run, parallel, pb, idx, calling, built_nodes,
                   metadata_cache, done, calls, committed, failed_builders,
                   fresh, verify_failed, fs0, store0,
                   first_build, prev_ok, run_dirty, mut0, runs, mutations, failures>>

\* a pool thread takes a queued job: _call_builder up to the call of build()
WorkerStart ==
    /\ \E b \in Builders :
         /\ futures[<<b, "queued">>] > 0
         /\ InState(futures, {"running"}) < parallel
         /\ futures' = Move(futures, <<b, "queued">>, <<b, "running">>)
         /\ calls' = [calls EXCEPT ![b] = @ + 1]
         /\ fs' = prepare_outputs(b, remove_outputs(b, fs))
    /\ UNCHANGED <<graphVars, store, callVars_but_futures, committed, failed_builders,
                   fresh, verify_failed,
                   fs0, store0, first_build, prev_ok, last_ok, dirty, run_dirty, mut0, runs,
                   mutations, failures>>

\* A pool thread that stores the signatures of its outputs itself when build()
\* has returned.
WorkerFinishStoring ==
    /\ \E b \in Builders :
         /\ futures[<<b, "running">>] > 0
         /\ \E o \in Outcomes(b) :
              LET st == IF o.kind = "ok" THEN "returned" ELSE RaisedBy(o)
                  u == _update_builder_metadata(b, build_effect(o, fs))
              IN /\ fs' = build_effect(o, fs)
                 /\ store' = IF o.kind = "ok" /\ ~dry_run THEN u.store ELSE store
                 /\ futures' = IF pc = "par"
                               THEN Move(futures, <<b, "running">>, <<b, st>>)
                               ELSE [futures EXCEPT ![<<b, "running">>] = @ - 1]
                 /\ failures' = IF o.kind = "ok" THEN failures ELSE failures + 1
                 /\ failed_builders' = IF o.kind = "ok" THEN failed_builders
                                       ELSE failed_builders \cup {b}
                 /\ verify_failed' = IF o.kind = "missing" THEN verify_failed \cup {b}
                                      ELSE verify_failed
    /\ UNCHANGED <<graphVars, callVars_but_futures, calls, committed, fresh, fs0, store0,
                   first_build, prev_ok, last_ok, dirty, run_dirty, mut0, runs, mutations>>

\* build() ends on the pool thread and the future completes; a future nobody
\* waits for any more (build_targets has raised) is dropped
WorkerFinish ==
    /\ \E b \in Builders :
         /\ futures[<<b, "running">>] > 0
         /\ \E o \in Outcomes(b) :
              LET st == IF o.kind = "ok" THEN "returned" ELSE RaisedBy(o)
              IN /\ fs' = build_effect(o, fs)
                 /\ futures' = IF pc = "par"
                               THEN Move(futures, <<b, "running">>, <<b, st>>)
                               ELSE [futures EXCEPT ![<<b, "running">>] = @ - 1]
                 /\ failures' = IF o.kind = "ok" THEN failures ELSE failures + 1
                 /\ failed_builders' = IF o.kind = "ok" THEN failed_builders
                                       ELSE failed_builders \cup {b}
                 /\ verify_failed' = IF o.kind = "missing" THEN verify_failed \cup {b}
                                      ELSE verify_failed
    /\ UNCHANGED <<graphVars, store, callVars_but_futures, calls, committed, fresh, fs0, store0,
                   first_build, prev_ok, last_ok, dirty, run_dirty, mut0, runs, mutations>>

\* execution.py:359-362: nothing is ready; wait() returns the completed futures
Wait ==
    /\ pc = "par" /\ done = NoFutures
    /\ ready_to_execute = {}
    /\ CompletedOf(futures) # NoFutures
    /\ done' = CompletedOf(futures)
    /\ futures' = PendingOf(futures)
    /\ UNCHANGED <<graphVars, worldVars, pc, error, dry_run, parallel, pb, idx, calling,
                   built_nodes, metadata_cache, to_execute, ready_to_execute,
                   histVars>>

\* execution.py:364-383: one iteration of `for f in done`
Collect ==
    /\ pc = "par"
    /\ \E f \in FutKeys :
         /\ done[f] > 0
         /\ LET b == f[1]
                built == built_nodes \cup Range(builder_builds[b])
                u == _update_builder_metadata(b, fs)
                scan == rescan(1, built, ready_to_execute, pb)
            IN
             /\ fresh' = IF f[2] = "returned" /\ ~dry_run /\ u.ok
                          THEN FreshAfter(b, fs) ELSE fresh
             /\ IF f[2] # "returned"
               THEN /\ pc' = "failed" /\ error' = f[2]           \* f.result() raises
                    /\ Finish(FALSE, dry_run)
                    /\ done' = NoFutures
                    /\ futures' = PendingOf(futures)
                    /\ UNCHANGED <<built_nodes, ready_to_execute, store, metadata_cache,
                                   committed>>
               ELSE IF ~dry_run /\ ~u.ok
               THEN /\ pc' = "failed" /\ error' = "KeyError"
                    /\ Finish(FALSE, dry_run)
                    /\ done' = NoFutures
                    /\ futures' = PendingOf(futures)
                    /\ built_nodes' = built
                    /\ store' = u.store /\ metadata_cache' = u.cache
                    /\ committed' = u.committed
                    /\ UNCHANGED ready_to_execute
               ELSE /\ done' = [done EXCEPT ![f] = @ - 1]
                    /\ built_nodes' = scan.built
                    /\ ready_to_execute' = scan.ready
                    /\ IF dry_run
                       THEN UNCHANGED <<store, metadata_cache, committed>>
                       ELSE /\ store' = u.store /\ metadata_cache' = u.cache
                            /\ committed' = u.committed
                    /\ UNCHANGED <<pc, error, futures, last_ok, dirty>>
    /\ UNCHANGED <<graphVars, fs, dry_run, parallel, pb, idx, calling, to_execute,
                   calls, failed_builders, verify_failed, fs0, store0, first_build,
                   prev_ok, run_dirty, mut0, runs, mutations, failures>>

\* execution.py:384-391: nothing is executing and nothing is ready
Exit ==
    /\ pc = "par" /\ done = NoFutures
    /\ ready_to_execute = {} /\ futures = NoFutures
    /\ IF to_execute # {}
       THEN /\ pc' = "failed" /\ error' = "InternalInconsistency"
            /\ Finish(FALSE, dry_run)
       ELSE /\ pc' = "done" /\ UNCHANGED error
            /\ Finish(TRUE, dry_run)
    /\ UNCHANGED <<graphVars, worldVars, dry_run, parallel, pb, idx, calling, built_nodes,
                   metadata_cache, to_execute, ready_to_execute, futures, done,
                   calls, committed, failed_builders,
                   fresh, verify_failed, fs0, store0, first_build, prev_ok,
                   run_dirty, mut0, runs, mutations, failures>>

(***************************************************************************)
(* The world outside the engine, between two calls: a file is edited       *)
(* (tests/run_tests.py:124-127) or deleted.                                *)
(***************************************************************************)
Touch ==
    /\ Quiescent /\ mutations < MaxMutations
    \* the metadata of a Dir lists that of the files in it (entry.py:181-199)
    /\ \E e \in Entries : \E v, w \in Metas :
         /\ fs[e] # NoFile /\ v # fs[e]
         /\ node_inside[e] # None => w # fs[node_inside[e]]
         /\ node_inside[e] = None => w = v
         /\ fs' = [n \in DOMAIN fs |-> IF n = e THEN v
                                       ELSE IF n = node_inside[e] THEN w ELSE fs[n]]
         /\ dirty' = dirty \cup {e} \cup ({node_inside[e]} \cap Entries)
    /\ mutations' = mutations + 1
    /\ UNCHANGED <<graphVars, store, callVars, calls, committed, failed_builders,
                   fresh, verify_failed, fs0,
                   store0, first_build, prev_ok, last_ok, run_dirty, mut0, runs, failures>>

Delete ==
    /\ Quiescent /\ mutations < MaxMutations
    /\ \E e \in Entries :
         /\ fs[e] # NoFile
         /\ fs' = [n \in DOMAIN fs |-> IF n = e \/ node_inside[n] = e THEN NoFile ELSE fs[n]]
         /\ dirty' = dirty \cup {n \in DOMAIN fs : fs[n] # NoFile /\ (n = e \/ node_inside[n] = e)}
    /\ mutations' = mutations + 1
    /\ UNCHANGED <<graphVars, store, callVars, calls, committed, failed_builders,
                   fresh, verify_failed, fs0,
                   store0, first_build, prev_ok, last_ok, run_dirty, mut0, runs, failures>>

Build == \E dry \in BOOLEAN : \E par \in 1..MaxWorkers : \E rank \in Perms(Nodes) :
            build_targets(dry, par, rank)

Next == \/ Build
        \/ SeqNext
        \/ SeqFinish
        \/ Submit
        \/ WorkerStart
        \/ WorkerFinish
        \/ Wait
        \/ Collect
        \/ Exit
        \/ Touch
        \/ Delete

Spec == Init /\ [][Next]_vars

\* Calls with parallel=1 only (the default of build_targets, and what main.py
\* passes), on the graphs above and on GraphsSeq.
InitSeq == InitFrom(Graphs \cup GraphsSeq)

BuildSeq == \E dry \in BOOLEAN : \E rank \in Perms(Nodes) : build_targets(dry, 1, rank)

NextSeq == \/ BuildSeq
           \/ SeqNext
           \/ SeqFinish
           \/ Touch
           \/ Delete

SpecSeq == InitSeq /\ [][NextSeq]_vars

\* Calls with parallel > 1 only, on GraphsPar.
InitPar == InitFrom(GraphsPar)

BuildPar == \E dry \in BOOLEAN : \E par \in 2..MaxWorkers : \E rank \in Perms(Nodes) :
               build_targets(dry, par, rank)

NextPar == \/ BuildPar
           \/ Submit
           \/ WorkerStart
           \/ WorkerFinish
           \/ Wait
           \/ Collect
           \/ Exit
           \/ Touch
           \/ Delete

SpecPar == InitPar /\ [][NextPar]_vars

\* The same calls on every graph, where the calling thread goes on running, every
\* pool thread with a job goes on running, and every build() invocation ends.
InitParFair == InitFrom(Graphs \cup GraphsPar)

SpecParFair ==
    /\ InitParFair /\ [][NextPar]_vars
    /\ WF_vars(Submit) /\ WF_vars(Wait) /\ WF_vars(Collect) /\ WF_vars(Exit)
    /\ WF_vars(WorkerStart) /\ WF_vars(WorkerFinish)

\* Calls with parallel > 1 on a PreparedBuild as prepare_build returned it or as
\* main.py changes it for --always-make, on GraphsPar.
BuildMake == \E dry, always \in BOOLEAN : \E par \in 2..MaxWorkers : \E rank \in Perms(Nodes) :
                build_prepared(dry, par, IF always THEN always_make(prepare_build(rank))
                                         ELSE prepare_build(rank))

NextMake == \/ BuildMake
            \/ Submit
            \/ WorkerStart
            \/ WorkerFinish
            \/ Wait
            \/ Collect
            \/ Exit
            \/ Touch
            \/ Delete

SpecMake == InitPar /\ [][NextMake]_vars

(***************************************************************************)
(* Graph construction: what a construct file does before any build         *)
(* (environment.py, entry.py, builder.py).  An object is its position in   *)
(* instances; 0 is "no object".                                            *)
(***************************************************************************)
\* two absolute paths: a source, and the path get_build_path gives it under the
\* build directory "obj"
Paths == {"x", "build/obj/x"}
\* Environment.get_build_path(src, "obj") with no new extension: the path relative to
\* the root or to the build directory of src, put under build/obj
get_build_path(path) == "build/obj/x"

engineVars == <<node_kind, node_builder, node_depends, builder_depends, builder_builds,
                targets, node_inside, worldVars, callVars, histVars>>

\* self.entries[path]; 0 stands for KeyError
entries_lookup(path) == IF path \in DOMAIN entries THEN entries[path] ELSE 0

\* Entry.__new__(cls, env, path): the entry the table holds under the path if it is
\* of the class asked for, TypeError if it is of another class, a new object if the
\* table has none
Entry_new(cls, path) ==
    LET entry == entries_lookup(path)
    IN  IF entry # 0
        THEN IF instances[entry].kind # cls
             THEN [err |-> "TypeError", id |-> 0]
             ELSE [err |-> "", id |-> entry]
        ELSE [err |-> "", id |-> Len(instances) + 1]

\* Node.__init__ and Entry.__init__, which Python runs on what __new__ returned:
\* builder = None, depends = set(), path = path
Entry_init(cls, path, id) ==
    LET blank == [kind |-> cls, path |-> path, builder |-> None, depends |-> {}]
    IN  IF id = Len(instances) + 1 THEN Append(instances, blank)
        ELSE [instances EXCEPT ![id] = blank]

\* Entry.__eq__: the same class and the same path; a FileSet is equal to itself only
Entry_eq(i, j) ==
    \/ i = j
    \/ /\ instances[i].kind # "FileSet"
       /\ instances[i].kind = instances[j].kind
       /\ instances[i].path = instances[j].path

\* cls(env, path): __new__ then __init__; the call is recorded as op
Construct(op, cls, path, b) ==
    LET n == Entry_new(cls, path)
    IN  /\ n.id <= MaxInstances
        /\ nops' = nops + 1
        /\ last' = [op |-> op, arg |-> path, builder |-> b, ret |-> n.id, err |-> n.err]
        /\ instances' = IF n.err = "" THEN Entry_init(cls, path, n.id) ELSE instances
        /\ depends_of' = IF b # None /\ n.err = ""
                         THEN [depends_of EXCEPT ![b] = Append(@, n.id)] ELSE depends_of
        /\ UNCHANGED <<entries, builds_of, engineVars>>

\* Environment.file(path) with a path
file ==
    \E path \in Paths :
        /\ nops < MaxOps
        /\ Construct("file", "File", path, None)

\* Environment.dir(path) with a path
dir ==
    \E path \in Paths :
        /\ nops < MaxOps
        /\ Construct("dir", "Dir", path, None)

\* Entry.derive("obj") of an existing File or Dir
derive ==
    \E i \in 1..Len(instances) :
        /\ instances[i].kind \in {"File", "Dir"}
        /\ nops < MaxOps
        /\ Construct("derive", instances[i].kind, get_build_path(instances[i].path), None)

\* FileSet(env): a node without a path
new_fileset ==
    /\ nops < MaxOps
    /\ Len(instances) < MaxInstances
    /\ nops' = nops + 1
    /\ instances' = Append(instances,
                       [kind |-> "FileSet", path |-> None, builder |-> None, depends |-> {}])
    /\ last' = [op |-> "FileSet", arg |-> None, builder |-> None,
                ret |-> Len(instances) + 1, err |-> ""]
    /\ UNCHANGED <<entries, builds_of, depends_of, engineVars>>

\* FileSet.add(node) with a Node: the node joins the set self.depends, which keeps
\* the member it has when an equal one is added
add ==
    \E f \in 1..Len(instances) : \E i \in 1..Len(instances) :
        /\ instances[f].kind = "FileSet"
        /\ nops < MaxOps
        /\ nops' = nops + 1
        /\ instances' = IF \E j \in instances[f].depends : Entry_eq(i, j) THEN instances
                        ELSE [instances EXCEPT ![f].depends = @ \cup {i}]
        /\ last' = [op |-> "add", arg |-> i, builder |-> None, ret |-> f, err |-> ""]
        /\ UNCHANGED <<entries, builds_of, depends_of, engineVars>>

\* Builder.register_target(entry)
register_target(self, entry) ==
    /\ nops < MaxOps
    /\ nops' = nops + 1
    /\ IF instances[entry].builder # None /\ instances[entry].builder # self
       THEN /\ last' = [op |-> "register_target", arg |-> entry, builder |-> self,
                        ret |-> 0, err |-> "ValueError"]
            /\ UNCHANGED <<instances, builds_of>>
       ELSE /\ instances' = [instances EXCEPT ![entry].builder = self]
            /\ builds_of' = [builds_of EXCEPT ![self] = Append(@, entry)]
            /\ last' = [op |-> "register_target", arg |-> entry, builder |-> self,
                        ret |-> entry, err |-> ""]
    /\ UNCHANGED <<entries, depends_of, engineVars>>

RegisterTarget ==
    \E self \in ConstructBuilders : \E entry \in 1..Len(instances) :
        register_target(self, entry)

\* Builder.depends_file(source) with a path: env.file(source), appended to depends
depends_file ==
    \E self \in ConstructBuilders : \E path \in Paths :
        /\ nops < MaxOps
        /\ Construct("depends_file", "File", path, self)

\* Builder.depends_file / depends_files / depends_dir with an entry object:
\* env.file returns the object itself and it is appended to depends
depends_node ==
    \E self \in ConstructBuilders : \E i \in 1..Len(instances) :
        /\ instances[i].kind \in {"File", "Dir"}
        /\ nops < MaxOps
        /\ nops' = nops + 1
        /\ depends_of' = [depends_of EXCEPT ![self] = Append(@, i)]
        /\ last' = [op |-> "depends", arg |-> i, builder |-> self, ret |-> i, err |-> ""]
        /\ UNCHANGED <<instances, entries, builds_of, engineVars>>

\* the nodes FileSet.__iter__ walks through from the nodes of S (entry.py:257-274):
\* the sources of a FileSet, and of the FileSets among them
RECURSIVE Sources(_)
Sources(S) ==
    LET T == S \cup UNION {instances[g].depends : g \in {h \in S : instances[h].kind = "FileSet"}}
    IN IF T = S THEN S ELSE Sources(T)

\* Builder.depends_files(sources) with a FileSet (builder.py:121-124): a FileSet is
\* neither a Dir, a File nor a str, so it is taken as an Iterable; the files it
\* yields at that moment, each once, are appended to depends and returned as a new
\* list (ret 0: no node is returned).  The sets walked hold no Dir and none holds
\* itself.
depends_files ==
    \E self \in ConstructBuilders : \E f \in 1..Len(instances) :
        /\ instances[f].kind = "FileSet"
        /\ \A g \in Sources({f}) :
              /\ instances[g].kind # "Dir"
              /\ g \notin Sources(instances[g].depends)
        /\ nops < MaxOps
        /\ nops' = nops + 1
        /\ \E S \in SUBSET {i \in Sources({f}) : instances[i].kind = "File"} :
              /\ \A i \in Sources({f}) :
                    instances[i].kind = "File" => \E j \in S : Entry_eq(i, j)
              /\ \A i, j \in S : Entry_eq(i, j) => i = j
              /\ \E files \in Perms(S) :
                    depends_of' = [depends_of EXCEPT ![self] = @ \o files]
        /\ last' = [op |-> "depends_files", arg |-> f, builder |-> self, ret |-> 0, err |-> ""]
        /\ UNCHANGED <<instances, entries, builds_of, engineVars>>

\* a construct file: any sequence of the calls above, on a new Execution
EmptyGraph == [kind |-> <<>>, builds |-> <<>>, bdeps |-> <<>>, ndeps |-> <<>>,
               targets |-> <<>>]
InitConstruct == InitFrom({EmptyGraph})

NextConstruct == \/ file
                 \/ dir
                 \/ derive
                 \/ new_fileset
                 \/ add
                 \/ RegisterTarget
                 \/ depends_file
                 \/ depends_node
                 \/ depends_files

SpecConstruct == InitConstruct /\ [][NextConstruct]_vars

(***************************************************************************)
(* Reference notions the properties are stated with                        *)
(***************************************************************************)
\* the least set holding S and every effective dependency of a member
RECURSIVE Closure(_)
Closure(S) == LET T == S \cup UNION {dependencies(n) : n \in S}
              IN IF T = S THEN S ELSE Closure(T)

\* the transitive effective dependencies of a node
TransDeps(n) == Closure(dependencies(n))
\* the nodes reachable from the targets
Reachable == Closure(Range(targets))
\* the graph reachable from the targets has a cycle
HasCycle == \E n \in Reachable : n \in TransDeps(n)
\* the edges that lie on a cycle
CycleEdges == {e \in Reachable \X Nodes :
                 e[2] \in dependencies(e[1]) /\ e[1] \in Closure({e[2]})}

\* the number of build() invocations of a builder in this call
Invocations(b) == IF dry_run THEN 0 ELSE calls[b]
\* build() of the builder is running
InBuild(b) == ~dry_run /\ (calling = b \/ futures[<<b, "running">>] > 0)
\* some output of b2 has an output of b1 among its transitive effective dependencies
BuilderDependsOn(b2, b1) ==
    \E n2 \in Range(builder_builds[b2]) : \E n1 \in Range(builder_builds[b1]) :
        n1 \in TransDeps(n2)
\* the call is under way on the calling thread
InCall == pc \in {"seq", "par"}
\* when the call began, a reachable entry without a builder was not on disk
InputMissing == \E e \in Reachable \cap Entries : node_builder[e] = None /\ fs0[e] = NoFile
\* the call raised the missing-input error, having run no builder, removed no
\* output and written no signature
FailedMissingInput ==
    /\ pc = "failed" /\ error = "MissingInput" /\ pb.status = "MissingInput"
    /\ \A b \in Builders : calls[b] = 0
    /\ committed = {} /\ store = store0
    /\ mutations = mut0 => fs = fs0
\* the call returned normally from a real (non-dry) build
BuiltOk == pc = "done" /\ ~dry_run /\ pb.status = "ok"
\* ... and nothing outside the engine has touched the filesystem since it began
JustBuilt == BuiltOk /\ mutations = mut0

(***************************************************************************)
(* Properties                                                              *)
(***************************************************************************)
\* C1: in one build_targets call no builder's build() is invoked more than once,
\* and when the call has returned a builder with an output in to_build has been
\* invoked exactly once.
C1_AtMostOnce ==
    \A b \in Builders :
        /\ Invocations(b) <= 1
        /\ (BuiltOk /\ Range(builder_builds[b]) \cap pb.to_build # {})
              => Invocations(b) = 1

\* C2: in parallel mode no builder has two build jobs submitted and not yet completed.
C2_OneInFlight ==
    pc = "par" =>
        \A b \in Builders : futures[<<b, "queued">>] + futures[<<b, "running">>] <= 1

\* C3: while the build() of a builder B1 is running, no builder B2 that has an output
\* of B1 among the transitive dependencies of one of its outputs has begun its build():
\* B1 completes before B2 begins.
C3_HappensBefore ==
    InCall =>
        \A b1, b2 \in Builders :
            (b1 # b2 /\ BuilderDependsOn(b2, b1) /\ InBuild(b1)) => Invocations(b2) = 0

\* C4: right after a successful non-dry build_targets, prepare_build on the same
\* targets returns an empty to_build.
C4_Freshness ==
    JustBuilt =>
        \A rank \in Perms(Nodes) :
            LET p == prepare_build(rank)
            IN p.status = "ok" /\ p.to_build = {}

\* C5: in a call that follows a successful build, every reachable node that has a
\* builder and has an entry changed since then among its transitive dependencies is
\* in to_build, and has been rebuilt when the call returns.
C5_DownwardPropagation ==
    (prev_ok /\ pb.status = "ok" /\ pc \in {"seq", "par", "done"}) =>
        \A n \in Range(pb.all_nodes) :
            (node_builder[n] # None /\ TransDeps(n) \cap run_dirty # {}) =>
                /\ n \in pb.to_build
                /\ BuiltOk => Invocations(node_builder[n]) >= 1

\* C6: a successful first build has invoked every builder that produces a node
\* reachable from the targets.
C6_FirstBuildBuildsAll ==
    (first_build /\ BuiltOk) =>
        \A b \in Builders :
            Range(builder_builds[b]) \cap Range(pb.all_nodes) # {} => Invocations(b) >= 1

\* C7: when build_targets returns normally, the builder of every node of to_build
\* that has one has been called exactly once.
C7_VisitedExactlyOnce ==
    (pc = "done" /\ pb.status = "ok") =>
        \A n \in pb.to_build : node_builder[n] # None => calls[node_builder[n]] = 1

\* C8: when the graph reachable from the targets has a cycle, build_targets fails
\* with the cycle error of the preparation, no builder has been called, the
\* filesystem and the store are as they were, and the error lists the residual
\* edges, among them every edge on a cycle.
C8_CycleDetected ==
    (pc # "idle" /\ HasCycle) =>
        /\ pc = "failed" /\ error = "Cycle"
        /\ \A b \in Builders : calls[b] = 0
        /\ committed = {} /\ store = store0
        /\ mutations = mut0 => fs = fs0
        /\ CycleEdges \subseteq pb.residual
        /\ \A e \in pb.residual : e[2] \in dependencies(e[1])

\* a cyclic graph has been handed to build_targets, with a stale output beside it
C8_Witness ==
    /\ pc = "failed" /\ error = "Cycle" /\ HasCycle
    /\ Cardinality(pb.residual) >= 2
    /\ \E e \in Entries : node_builder[e] # None /\ e \notin TransDeps(e)

\* the builders the sequential path calls when no build fails (execution.py:298-311)
SeqBuilders(p) == {node_builder[n] : n \in {m \in p.to_build : node_builder[m] # None}}

\* C9: a parallel build in which no build failed has called the builders the
\* sequential build of the same PreparedBuild calls, and has committed the
\* signatures of their entry outputs.
C9_ParallelEqualsSequential ==
    (pc = "done" /\ parallel > 1 /\ pb.status = "ok" /\ failed_builders = {}) =>
        /\ {b \in Builders : calls[b] > 0} = SeqBuilders(pb)
        /\ ~dry_run => committed = UNION {EntryOutputs(b) : b \in SeqBuilders(pb)}

\* C11: when a non-dry build has returned normally, the signature stored for each
\* entry built in it is the signature of its dependencies as they were on disk when
\* it was stored, right after its builder completed.
C11_StoredSignatureIsFresh ==
    BuiltOk => \A e \in committed : store[e] = fresh[e]

\* C12: throughout and after a build_targets call with dry_run, the filesystem and
\* the metadata store are as they were when the call began, and no signature has
\* been written, in sequential and in parallel mode.
C12_DryRunNeutral ==
    (pc # "idle" /\ dry_run /\ mutations = mut0) =>
        /\ fs = fs0
        /\ store = store0
        /\ committed = {}

\* a parallel dry run went through a builder whose output was on disk, and returned
C12_Witness ==
    /\ pc = "done" /\ dry_run /\ parallel > 1 /\ mutations = mut0
    /\ \E b \in Builders : calls[b] > 0 /\ \E e \in EntryOutputs(b) : fs0[e] # NoFile

\* C13: once the outputs of a builder have failed the check that follows build(),
\* no signature has been written for its outputs in this call, no builder that
\* depends on it is queued or running, and the call ends with the missing-output
\* error.
C13_MissingOutputFails ==
    \A b \in verify_failed :
        /\ EntryOutputs(b) \cap committed = {}
        /\ \A b2 \in Builders :
              (b2 # b /\ BuilderDependsOn(b2, b)) =>
                  ~InBuild(b2) /\ futures[<<b2, "queued">>] = 0
        /\ (Quiescent /\ pc # "idle") => (pc = "failed" /\ error = "MissingOutput")

\* C14 as stated: a call that began with a reachable builder-less entry absent from
\* disk fails with the missing-input error and has changed nothing.
C14_MissingInputAnyGraph ==
    (pc # "idle" /\ InputMissing) => FailedMissingInput

\* C14 for acyclic graphs: a call on an acyclic graph that began with a reachable
\* builder-less entry absent from disk fails with the missing-input error, no
\* builder has been called, no output removed and no signature written.  (On a
\* graph with a cycle the sort comes first and the call fails with the cycle error.)
C14_MissingInput ==
    (pc # "idle" /\ InputMissing /\ ~HasCycle) => FailedMissingInput

\* a call failed on an absent input while a builder had work to do
C14_Witness ==
    /\ pc = "failed" /\ error = "MissingInput" /\ InputMissing /\ ~HasCycle
    /\ \E e \in Entries : node_builder[e] # None /\ fs[e] = NoFile

\* C15: in the ordered_nodes of a successful prepare_build every reachable
\* node appears, and every position of a node is after every position of each of its
\* effective dependencies.
C15_AfterEveryOccurrence ==
    pb.status = "ok" =>
        /\ Range(pb.ordered_nodes) = Reachable
        /\ \A i, j \in 1..Len(pb.ordered_nodes) :
              pb.ordered_nodes[j] \in dependencies(pb.ordered_nodes[i]) => j < i

\* C16: after env.file(p) or env.dir(p) has returned an entry, that entry is the only
\* object there is for the path p, and the path-to-entry table of the Execution maps
\* p to it (so that a target given as a path is found).
C16_Interning ==
    (last.op \in {"file", "dir"} /\ last.err = "") =>
        /\ \A j \in 1..Len(instances) : instances[j].path = last.arg => j = last.ret
        /\ entries_lookup(last.arg) = last.ret

\* C17: when an entry of one variant (File or Dir) exists for a path, env.file or
\* env.dir asking for the other variant at that path fails with TypeError and
\* changes neither the objects nor the table.
C17_TypeMismatch ==
    [][(nops' # nops /\ last'.op \in {"file", "dir"}) =>
          LET other == IF last'.op = "file" THEN "Dir" ELSE "File"
          IN  (\E j \in 1..Len(instances) :
                   instances[j].path = last'.arg /\ instances[j].kind = other)
              => /\ last'.err = "TypeError"
                 /\ instances' = instances
                 /\ entries' = entries]_vars

\* C18: register_target(entry) on a builder fails with ValueError when the entry's
\* builder is another builder, and then the entry's builder and both builders'
\* builds are unchanged; so no node (entries that are equal being one node) is
\* among the builds of two builders.
C18_OneProducer ==
    [][(nops' # nops /\ last'.op = "register_target") =>
          /\ instances[last'.arg].builder \notin {None, last'.builder} =>
                /\ last'.err = "ValueError"
                /\ instances' = instances
                /\ builds_of' = builds_of
          /\ \A b1, b2 \in ConstructBuilders :
                \A i \in Range(builds_of'[b1]) : \A j \in Range(builds_of'[b2]) :
                    Entry_eq(i, j)' => b1 = b2]_vars

\* C19: once register_target has set a node's builder, no construction call clears
\* or replaces it: the object keeps it, and the entry that env.file, env.dir,
\* Entry.derive or depends_file returns for the same path and variant has it.
C19_BuilderMonotonic ==
    [][\A i \in 1..Len(instances) :
          instances[i].builder # None =>
             /\ instances'[i].builder = instances[i].builder
             /\ ( /\ nops' # nops
                  /\ last'.op \in {"file", "dir", "derive", "depends_file"}
                  /\ last'.err = ""
                  /\ instances'[last'.ret].kind = instances[i].kind
                  /\ instances'[last'.ret].path = instances[i].path )
                => instances'[last'.ret].builder = instances[i].builder]_vars

\* C20: in the PreparedBuild a successful prepare_build returns, every node reachable
\* from the targets that has an effective dependency in to_build (one the upward
\* pass added included) is in to_build itself.
C20_ToBuildClosedDownward ==
    pb.status = "ok" =>
        \A n \in Reachable : dependencies(n) \cap pb.to_build # {} => n \in pb.to_build

\* C21: in the PreparedBuild a successful prepare_build returns, every direct
\* effective dependency of a node of to_build that is a non-entry node with a builder
\* is in to_build too (and so along a chain of such dependencies).
C21_UpwardPropagation ==
    pb.status = "ok" =>
        \A n \in pb.to_build : \A d \in dependencies(n) :
            (~IsEntry(d) /\ node_builder[d] # None) => d \in pb.to_build

\* a file is to be built that reads a built FileSet whose builder reads another one
C21_Witness ==
    /\ pb.status = "ok"
    /\ \E n \in pb.to_build : \E d \in dependencies(n) : \E d2 \in dependencies(d) :
          /\ IsEntry(n)
          /\ ~IsEntry(d) /\ node_builder[d] # None
          /\ ~IsEntry(d2) /\ node_builder[d2] # None
          /\ {d, d2} \subseteq pb.to_build

\* C22: the outdated set of a successful prepare_build is exactly the set of the
\* reachable entries with a builder whose path did not exist or whose stored
\* signature was absent or differed from the metadata then observed on their ancestor
\* entries; it holds no entry without a builder and no non-entry node.
C22_OutdatedExact ==
    pb.status = "ok" =>
        pb.out_of_date =
            {e \in Reachable \cap Entries :
                /\ node_builder[e] # None
                /\ \/ fs0[e] = NoFile
                   \/ e \notin DOMAIN store0
                   \/ store0[e] # [a \in TransDeps(e) \cap Entries |-> fs0[a]]}

\* one built entry is outdated by its signature alone while another is up to date
C22_Witness ==
    /\ pb.status = "ok"
    /\ \E e \in pb.out_of_date : fs0[e] # NoFile /\ e \in DOMAIN store0
    /\ \E e \in (Reachable \cap Entries) \ pb.out_of_date : node_builder[e] # None

\* C23: to_build of a successful prepare_build has no spurious member: each member
\* is outdated, or has an effective dependency in to_build, or is a non-entry node
\* with a builder that a member depends on directly; a node with no builder and no
\* dependencies is not in it; and when, since a successful build, one leaf input
\* alone has been changed, to_build is exactly the set of the nodes that have the
\* leaf among their transitive dependencies.
C23_NothingSpurious ==
    pb.status = "ok" =>
        /\ \A n \in pb.to_build :
              \/ n \in pb.out_of_date
              \/ dependencies(n) \cap pb.to_build # {}
              \/ /\ ~IsEntry(n) /\ node_builder[n] # None
                 /\ \E m \in pb.to_build : n \in dependencies(m)
        /\ \A n \in Nodes :
              (node_builder[n] = None /\ dependencies(n) = {}) => n \notin pb.to_build
        /\ \A s \in Reachable :
              ( /\ prev_ok /\ run_dirty = {s} /\ fs0[s] # NoFile
                /\ node_builder[s] = None /\ dependencies(s) = {} )
              => pb.to_build = {n \in Reachable : s \in TransDeps(n)}

\* C24: the parallel scheduler, given the PreparedBuild of a successful
\* prepare_build, never raises its internal-consistency error: neither the check made
\* before a builder is submitted nor the check made when the loop has ended fires.
C24_NoInternalInconsistency ==
    pb.status = "ok" => error # "InternalInconsistency"

\* C25: in a parallel build no node without a builder is claimed for execution:
\* every node with no builder and no dependencies is in the built set and not in the
\* ready set from the first submission on, also when to_build is all of
\* ordered_nodes; and such a build, when it returns, has invoked every builder of a
\* reachable node.
C25_SourcesNeverClaimed ==
    /\ error # "AssertionError"
    /\ pc = "par" =>
          \A n \in Range(pb.ordered_nodes) :
              (node_builder[n] = None /\ dependencies(n) = {}) =>
                  n \in built_nodes /\ n \notin ready_to_execute
    /\ (BuiltOk /\ pb.to_build = Range(pb.ordered_nodes)) =>
          \A n \in Reachable : node_builder[n] # None => calls[node_builder[n]] >= 1

\* C26: the loop of the parallel scheduler ends (build_targets returns or raises)
\* whenever every build() invocation ends, so that it submits finitely many jobs: it
\* calls wait() only with a future outstanding, and it leaves by the break exactly
\* when no future is outstanding and nothing is ready.
C26_LoopTerminates ==
    /\ (pc = "par") ~> (pc # "par")
    /\ [][(pc = "par" /\ done = NoFutures /\ done' # NoFutures) => futures # NoFutures]_vars
    /\ [][(pc = "par" /\ pc' = "done") =>
             (ready_to_execute = {} /\ futures = NoFutures /\ done = NoFutures)]_vars
    /\ [][(pc = "par" /\ ready_to_execute = {} /\ futures = NoFutures /\ done = NoFutures)
             => pc' # "par"]_vars

\* a parallel build has returned after running two builders, one of them twice
C26_Witness ==
    /\ pc = "done" /\ parallel > 1 /\ ~dry_run /\ futures = NoFutures
    /\ \E b1, b2 \in Builders : b1 # b2 /\ calls[b1] >= 1 /\ calls[b2] >= 2

\* C27: in a non-dry run, once a builder has completed successfully and its outputs
\* have joined the built set, a signature has been stored in this call for every entry
\* among its outputs, and storing them has not failed, whether or not every output
\* is reachable from the targets.
C27_SignatureForEveryOutput ==
    (pc # "idle" /\ ~dry_run /\ pb.status = "ok") =>
        /\ error # "KeyError"
        /\ \A b \in Builders :
              (calls[b] > 0 /\ Range(builder_builds[b]) \subseteq built_nodes) =>
                  EntryOutputs(b) \subseteq committed

\* C28: once a build() has raised in a build_targets call, no builder begins
\* _call_builder any more in that call (so the failed one is not retried, and no
\* queued or newly ready one starts); when the call and its pool threads have come to
\* rest the call has raised; and every signature committed in the call is in the store.
C28_FailureStopsScheduling ==
    [][/\ (failed_builders # {} /\ runs' = runs) => calls' = calls
       /\ (Quiescent' /\ failed_builders' # {}) => pc' = "failed"
       /\ \A e \in committed' : e \in DOMAIN store']_vars

C30_EffectiveDependencies ==
    pb.status = "ok" =>
        /\ \A n \in Range(pb.ordered_nodes) :
              Range(pb.edges[n]) =
                  IF node_builder[n] = None THEN node_depends[n]
                  ELSE node_depends[n] \cup builder_depends[node_builder[n]] \cup
                       {d \in Nodes : \E s \in Nodes :
                            node_builder[s] = node_builder[n] /\ d \in node_depends[s]}
        /\ \A n, m \in Range(pb.ordered_nodes) :
              (node_builder[n] # None /\ node_builder[n] = node_builder[m])
                  => Range(pb.edges[n]) = Range(pb.edges[m])

\* a prepared node without dependencies of its own or of its builder, recorded with
\* the dependency of a sibling
C30_Witness ==
    /\ pb.status = "ok"
    /\ \E n \in Range(pb.ordered_nodes) : \E s \in Nodes \ {n} :
          /\ node_builder[n] # None /\ node_builder[s] = node_builder[n]
          /\ node_depends[n] = {} /\ builder_depends[node_builder[n]] = {}
          /\ node_depends[s] # {} /\ Range(pb.edges[n]) = node_depends[s]

\* C31: in the edges mapping of a successful prepare_build, each (node, dep) pair
\* is recorded exactly once: no list edges[n] holds a dependency twice.
C31_EdgeRecordedOnce ==
    pb.status = "ok" =>
        \A n \in Nodes : \A i, j \in DOMAIN pb.edges[n] :
            pb.edges[n][i] = pb.edges[n][j] => i = j

\* C32: after a successful prepare_build (the graph is acyclic), for every
\* reachable node n, entry_dependencies[n] is the set of the File and Dir entries
\* in the transitive closure of n's effective dependencies, n not among them:
\* non-entry nodes are not members, the entries reached through them are.
C32_AncestorEntries ==
    pb.status = "ok" =>
        /\ DOMAIN pb.entry_dependencies = Reachable
        /\ \A n \in Reachable :
              /\ pb.entry_dependencies[n] = {e \in Entries : e \in TransDeps(n)}
              /\ n \notin pb.entry_dependencies[n]

\* a prepared node with an ancestor entry that it reaches through a non-entry node
\* only
C32_Witness ==
    /\ pb.status = "ok"
    /\ \E n \in Reachable : \E e \in pb.entry_dependencies[n] : \E d \in dependencies(n) :
          /\ e \notin dependencies(n)
          /\ ~IsEntry(d) /\ e \in dependencies(d)
          /\ \A d2 \in dependencies(n) : IsEntry(d2) => e \notin TransDeps(d2) \cup {d2}

\* C33: after a successful prepare_build, changed is exactly the set of the
\* ancestor entries a of an outdated entry e whose path exists such that the key of
\* a is in the stored signature of e or in the newly computed one and the two
\* differ on it; a key that only one of the two has counts as differing, and an
\* entry without a stored signature has a stored signature without keys.
C33_ChangedExact ==
    pb.status = "ok" =>
        pb.changed =
            {a \in Entries : \E e \in pb.out_of_date :
                /\ fs0[e] # NoFile
                /\ LET new == [k \in TransDeps(e) \cap Entries |-> fs0[k]]
                       old == IF e \in DOMAIN store0 THEN store0[e] ELSE <<>>
                   IN /\ a \in DOMAIN old \cup DOMAIN new
                      /\ \/ a \notin DOMAIN old
                         \/ a \notin DOMAIN new
                         \/ old[a] # new[a]}

\* C34: when depends_file, depends_files or depends_dir returns, the node its
\* argument resolved to (the File of the path given, the node given) is in the
\* builder's depends and is the value returned; a FileSet given to depends_files is
\* that node.
C34_DependsAppendsNode ==
    [][(nops' = nops + 1 /\ last'.err = ""
            /\ last'.op \in {"depends_file", "depends", "depends_files"}) =>
          /\ last'.ret \in Range(depends_of'[last'.builder])
          /\ IF last'.op = "depends_file"
             THEN /\ instances'[last'.ret].kind = "File"
                  /\ instances'[last'.ret].path = last'.arg
             ELSE last'.ret = last'.arg]_vars

\* C35: after a successful prepare_build, to_build is closed under co-outputs: if
\* one output of a builder is in to_build, every reachable output of that builder
\* is in to_build.
C35_ClosedUnderCoOutputs ==
    pb.status = "ok" =>
        \A n \in pb.to_build : \A m \in Reachable :
            (node_builder[n] # None /\ node_builder[m] = node_builder[n]) => m \in pb.to_build

\* the nodes reached from S by dependency edges through non-entry nodes only
RECURSIVE ThroughNonEntries(_)
ThroughNonEntries(S) ==
    LET T == S \cup UNION {dependencies(m) : m \in {k \in S : ~IsEntry(k)}}
    IN IF T = S THEN S ELSE ThroughNonEntries(T)

\* C36: after a successful prepare_build, every non-entry node with a builder that
\* a node of to_build reaches by a chain of dependency edges whose intermediate
\* nodes are all non-entry nodes is in to_build.
C36_DynamicSetsBuilt ==
    pb.status = "ok" =>
        \A n \in pb.to_build : \A d \in ThroughNonEntries(dependencies(n)) :
            (~IsEntry(d) /\ node_builder[d] # None) => d \in pb.to_build

\* C37: in parallel mode every write to the metadata store is made by the
\* coordinating thread as it collects a future whose build has returned, and it
\* writes signatures of outputs of that future's builder only; a step of a pool
\* thread (a job started, a build() ended) writes nothing, so no two writes overlap.
C37_StoreWrittenOnCollect ==
    [][(store' # store /\ pc # "seq") =>
          /\ pc = "par" /\ parallel > 1
          /\ fs' = fs /\ calls' = calls
          /\ \A k \in FutKeys : ~IsCompleted(k) => futures'[k] = futures[k]
          /\ \E f \in FutKeys :
                /\ done[f] > 0 /\ f[2] = "returned" /\ calls[f[1]] >= 1
                /\ \A e \in DOMAIN store' :
                      (e \notin DOMAIN store \/ store'[e] # store[e]) => e \in EntryOutputs(f[1])]_vars

\* the coordinating thread has stored a signature while a build() is running on a
\* pool thread
C37_Witness ==
    /\ pc = "par" /\ parallel > 1 /\ ~dry_run
    /\ InState(futures, {"running"}) > 0
    /\ \E e \in committed : e \in DOMAIN store /\ (e \notin DOMAIN store0 \/ store[e] # store0[e])

\* C38: after any sequence of construction calls, for every node n and builder B,
\* n.builder is B if and only if n is in B.builds (list membership: an entry equal
\* to n is in the list), and no node is in the builds of two builders.
C38_BuilderIffBuilds ==
    \A n \in 1..Len(instances) :
        /\ \A B \in ConstructBuilders :
              instances[n].builder = B <=> \E m \in Range(builds_of[B]) : Entry_eq(n, m)
        /\ \A B1, B2 \in ConstructBuilders :
              (/\ \E m \in Range(builds_of[B1]) : Entry_eq(n, m)
               /\ \E m \in Range(builds_of[B2]) : Entry_eq(n, m)) => B1 = B2

\* C39: after a successful prepare_build (the graph is acyclic), the node list of
\* the traversal and ordered_nodes each hold every reachable node exactly once.
C39_EachNodeOnce ==
    pb.status = "ok" =>
        /\ Range(pb.all_nodes) = Reachable /\ Range(pb.ordered_nodes) = Reachable
        /\ \A i, j \in DOMAIN pb.all_nodes : pb.all_nodes[i] = pb.all_nodes[j] => i = j
        /\ \A i, j \in DOMAIN pb.ordered_nodes :
              pb.ordered_nodes[i] = pb.ordered_nodes[j] => i = j

\* C10: after a call in which a builder failed, no signature was written for its
\* outputs in that call, and the next prepare_build classifies each of its
\* reachable entry outputs as outdated.
C10_FailedBuilderOutdated ==
    (pc = "failed" /\ Quiescent /\ ~dry_run /\ mutations = mut0) =>
        \A b \in failed_builders :
            /\ EntryOutputs(b) \cap committed = {}
            /\ \A rank \in Perms(Nodes) :
                 LET p == prepare_build(rank)
                 IN p.status = "ok" =>
                      (EntryOutputs(b) \cap Range(p.all_nodes)) \subseteq p.out_of_date

====
